---------------------------- MODULE Spec2Model ----------------------------
(***************************************************************************)
(* Model of the ollama-gui frontend's streaming chat path:                 *)
(*   - the chat page (src/frontend/src/routes/chat-page.ts): its component *)
(*     variables, onMount, onDestroy and handleSendMessage with the two    *)
(*     callbacks it hands to the API client;                               *)
(*   - ApiClient.streamChatResponse and ApiClient.handleError              *)
(*     (src/frontend/src/lib/api/api-client.ts);                           *)
(*   - the socket's listener table and the messages emitted on it.         *)
(* The backend is not part of the sources: it is the environment, which    *)
(* answers REST calls with success or failure and may send token, done and *)
(* error events for any stream id it was asked to stream.                  *)
(*                                                                         *)
(* JavaScript runs each handler to completion, so every handler (and every *)
(* continuation after an await) is one atomic action.  A string built by   *)
(* `+=` is modelled as the sequence of the tokens appended to it.          *)
(*                                                                         *)
(* Not modelled: the page's chat:message, chat:update and chat:typing      *)
(* listeners (server pushes that no stream event triggers), and the        *)
(* fields of a conversation other than its id.                             *)
(*                                                                         *)
(* The module holds one specification per part of the program; each keeps  *)
(* the variables of the other parts at rest:                               *)
(*   Spec, LiveSpec   the chat page and its streams;                       *)
(*   ModelsSpec       the models store (conversations-store.ts, 274-502);  *)
(*   AuthSpec         the REST client, localStorage's auth token, the auth *)
(*                    store and the socket connection;                     *)
(*   ChunkSpec        document chunking of the retrieval pipeline;         *)
(*   RetrieveSpec     retrieval of the retrieval pipeline.                 *)
(* The retrieval pipeline's code is not among the sources: ChunkSpec and   *)
(* RetrieveSpec follow the specification's description of ingest and       *)
(* retrieve.                                                               *)
(***************************************************************************)
EXTENDS Integers, Sequences, FiniteSets

\* ------------------------------------------------------------------ bounds
\* Sends the user issues on one page instance.
MaxSends == 2
\* Events (token, done, error) the backend sends, over all stream ids.
MaxEvents == 3
\* Models in one catalog the backend returns.
MaxModels == 2
\* loadModels and refreshModels calls issued on the models store.
MaxLoads == 2
\* updateModelParameters calls issued on the models store.
MaxUpdates == 1
\* REST calls issued through the auth store and the ApiClient.
MaxCalls == 3
\* Characters of an ingested document.
MaxDocLen == 5
\* The largest chunk_size ingestion is run with.
MaxChunkSize == 3
\* Chunks in the vector store when a query is answered.
MaxStored == 3
\* The largest similarity of a stored chunk to the query, in steps of the
\* similarity scale; the smallest is -1.
MaxSimilarity == 2
\* The largest top_k a query is answered with.
MaxTopK == 2

\* The largest contextLength a prompt is assembled for.
MaxContext == 5
\* The largest size, in tokens, of a retrieved chunk or a history turn.
MaxItemSize == 2
\* Retrieved chunks handed to assemble.
MaxRetrieved == 2
\* History turns handed to assemble.
MaxTurns == 3
\* Calls issued on the conversations store.
MaxConvCalls == 3

\* Configured defaults of the retrieval pipeline.
chunk_size == 1000
chunk_overlap == 100
top_k == 3
relevance_threshold == 0

\* --------------------------------------------------------------- constants
\* The route parameter of a not yet created conversation.
NewChat == "new"
\* The route parameter of a page opened on an existing conversation.
ExistingChat == "c0"
\* The ids the backend gives to created conversations, in creation order.
CreatedIds == <<"c1", "c2", "c3", "c4", "c5">>
\* activeSocketId = null.
NoStream == 0

\* The text of the n-th token the backend generates for stream id s: every
\* token of the model is distinct, so a lost, repeated, reordered or foreign
\* token shows in the accumulated output.
TokenText ==
    << <<"a1", "a2", "a3", "a4", "a5">>,
       <<"b1", "b2", "b3", "b4", "b5">>,
       <<"c1", "c2", "c3", "c4", "c5">>,
       <<"d1", "d2", "d3", "d4", "d5">> >>
\* Message texts of the user (" " is a message that is empty after trim()).
Messages == {" ", "hi"}

\* The stream ids streamChatResponse can generate within the bound.
StreamIds == 1..MaxSends

VARIABLES
    \* chat page, component constants
    conversationId,     \* $page.params.id, read once
    modelSelected,      \* $modelsStore.selectedModel is set
    \* chat page, component variables
    conversation,       \* conversation.id ("new" until created), or "null"
    messages,
    loading,
    error,              \* "null" or the error text's kind
    streaming,
    streamedMessage,
    activeSocketId,
    destroyed,          \* onDestroy has run
    \* calls awaiting their REST response
    pendingCreate,      \* handleSendMessage instances awaiting createConversation
    pendingSend,        \* handleSendMessage instances awaiting sendChatMessage
    sendCount,          \* sends issued (the clock of the temp- ids)
    conversations,      \* $conversationsStore.conversations (ids)
    \* socket
    listeners,          \* <<streamId, kind>> with a registered listener
    emitted,            \* messages emitted to the backend, in order
    nextStream,         \* the next fresh stream id
    \* backend
    nextConv,           \* the next fresh conversation id
    serverCancelled,    \* stream ids whose chat:cancel the backend has handled
    \* history
    sent,               \* per stream id, the events the backend sent, in order
    completed           \* per stream id, the content of each onComplete run

pageVars == <<conversation, messages, loading, error, streaming,
              streamedMessage, activeSocketId, destroyed>>
constVars == <<conversationId, modelSelected>>
restVars == <<pendingCreate, pendingSend, sendCount, nextConv, conversations>>
socketVars == <<listeners, emitted, nextStream>>
histVars == <<sent, completed, serverCancelled>>
chatVars == <<constVars, pageVars, restVars, socketVars, histVars>>

VARIABLES
    \* models store
    models,             \* state.models
    selectedModel,      \* state.selectedModel (NullModel for null)
    modelsIsLoading,    \* state.isLoading
    modelsError,        \* state.error ("null" or the error text's kind)
    savedModelId,       \* localStorage 'selected_model_id' ("null" when absent)
    pendingLoads,       \* loadModels calls awaiting getModels
    pendingRefreshes,   \* refreshModels calls awaiting the refresh request
    pendingUpdates,     \* updateModelParameters calls awaiting their response
    loadCount,          \* loadModels calls issued
    updateCount,        \* updateModelParameters calls issued
    lastCall            \* history: the last store call that ran and what it got

modelsVars == <<models, selectedModel, modelsIsLoading, modelsError, savedModelId,
                pendingLoads, pendingRefreshes, pendingUpdates, loadCount,
                updateCount, lastCall>>

VARIABLES
    \* browser
    authToken,          \* localStorage 'auth_token' ("null" when absent)
    navigating,         \* window.location.href = '/login' assigned, page not yet unloaded
    \* auth-store.ts
    authState,          \* the store's value: isAuthenticated, isLoading, user
    \* websocket-client.ts
    socketAuth,         \* socketInstance.auth.token ("null" when auth is unset)
    socketState,        \* "closed", "opening" (connect called), "open" (connected)
    \* api-client.ts
    inflight,           \* REST requests sent and not yet answered
    callCount,          \* REST requests sent
    \* history
    lastConnect,        \* the last connect() of connectSocket: auth used, token stored
    lastResult          \* the last REST call that ended and what it resolved to

authVars == <<authToken, navigating, authState, socketAuth, socketState, inflight,
              callCount, lastConnect, lastResult>>

VARIABLES
    \* retrieval pipeline: ingest
    doc,                \* the document's text, a sequence of characters
    chunkSize,          \* chunk_size of the ingestion
    chunkOverlap,       \* chunk_overlap of the ingestion
    chunks,             \* the RetrievalChunks produced: start offset and text
    ingested,           \* ingest has run
    \* retrieval pipeline: retrieve
    scores,             \* similarity of each stored chunk to the query
    topK,               \* top_k of the query
    threshold,          \* relevance_threshold of the query
    retrieved,          \* the sequence retrieve returned
    answered            \* retrieve has run

chunkVars == <<doc, chunkSize, chunkOverlap, chunks, ingested>>
retrieveVars == <<scores, topK, threshold, retrieved, answered>>

VARIABLES
    \* context assembler
    contextLength,      \* the model's context length, in tokens
    reserve,            \* the reserved output budget, in tokens
    systemPrompt,       \* size of the system prompt
    retrievedChunks,    \* sizes of the retrieved chunks, best first
    history,            \* sizes of the history turns, oldest first
    prompt,             \* the prompt assembled: the chunks and turns kept
    assembled           \* assemble has run

assembleVars == <<contextLength, reserve, systemPrompt, retrievedChunks, history,
                  prompt, assembled>>

VARIABLES
    \* conversations store (conversations-store.ts, 1-272)
    convList,           \* state.conversations
    currentConversation,
    convIsLoading,
    convError,
    \* its calls and the backend
    convPending,        \* calls awaiting their response
    convCount,          \* calls issued
    serverConvs,        \* the conversations the backend holds, oldest first
    lastLoad,           \* history: the last loadConversation call issued
    convLast            \* history: the last call that ended

convVars == <<convList, currentConversation, convIsLoading, convError, convPending,
              convCount, serverConvs, lastLoad, convLast>>

\* The variables of the parts other than the chat page.
notChatVars == <<modelsVars, authVars, chunkVars, retrieveVars, assembleVars, convVars>>

vars == <<chatVars, notChatVars>>

isNewChat == conversationId = NewChat

\* ---------------------------------------------------------------- helpers
Last(q) == q[Len(q)]

\* String.prototype.trim() on the message texts of the model.
Trim(m) == IF m = " " THEN "" ELSE m

\* messages.filter(m => m.id !== id)
RECURSIVE FilterOutId(_, _)
FilterOutId(ms, id) ==
    IF ms = <<>> THEN <<>>
    ELSE IF Head(ms).id = id THEN FilterOutId(Tail(ms), id)
         ELSE <<Head(ms)>> \o FilterOutId(Tail(ms), id)

\* ------------------------------------------------------------- ApiClient
\* What axios rejects with: an HTTP error with the server's error body, an
\* HTTP error without a body, a network failure or timeout (no response).
AxiosErrors ==
    { [hasResponse |-> TRUE, hasData |-> TRUE,
       data |-> [status |-> FALSE, code |-> "server_error"]],
      [hasResponse |-> TRUE, hasData |-> FALSE,
       data |-> [status |-> FALSE, code |-> "none"]],
      [hasResponse |-> FALSE, hasData |-> FALSE,
       data |-> [status |-> FALSE, code |-> "none"]] }

\* ApiClient.handleError
handleError(err) ==
    IF err.hasResponse /\ err.hasData THEN err.data
    ELSE [status |-> FALSE, code |-> "unknown_error"]

\* What a REST method of ApiClient resolves to: response.data on success,
\* handleError(error) otherwise.
ApiResponses == {[status |-> TRUE, code |-> "none"]} \cup {handleError(e) : e \in AxiosErrors}

\* The three events streamChatResponse listens to for stream id s.
StreamListeners(s) == {<<s, "token">>, <<s, "done">>, <<s, "error">>}

\* A done listener that leaves the error listener registered.
DoneOffKeepsError(s) == {<<s, "token">>, <<s, "done">>}

\* The listeners the done listener removes.
DoneOff(s) == {<<s, "token">>, <<s, "done">>, <<s, "error">>}

\* An error listener that leaves the token listener registered.
ErrorOffKeepsToken(s) == {<<s, "done">>, <<s, "error">>}

\* The listeners the error listener removes.
ErrorOff(s) == {<<s, "token">>, <<s, "done">>, <<s, "error">>}

\* The chat:stream request streamChatResponse emits.
StreamRequest(conv, s) ==
    [type |-> "chat:stream", conversationId |-> conv, streamId |-> s]

\* The chat:cancel request onDestroy emits.
CancelRequest(s) ==
    [type |-> "chat:cancel", conversationId |-> conversationId, socketId |-> s]

\* ------------------------------------------------------------ history views
\* s has been started by streamChatResponse.
Started(s) == s < nextStream

\* The listeners of s are still registered: s has neither completed nor failed.
Active(s) == <<s, "done">> \in listeners

IsTerminal(ev) == ev \in {"done", "error"}

\* The first done or error event sent for s, "none" when there is none yet.
RECURSIVE FirstTerminal(_)
FirstTerminal(evs) ==
    IF evs = <<>> THEN "none"
    ELSE IF IsTerminal(Head(evs)) THEN Head(evs)
         ELSE FirstTerminal(Tail(evs))

Ended(s) == FirstTerminal(sent[s])

\* The tokens sent for s before its first done or error event, in order.
RECURSIVE TokensBeforeEnd(_)
TokensBeforeEnd(evs) ==
    IF evs = <<>> \/ IsTerminal(Head(evs)) THEN <<>>
    ELSE <<Head(evs)>> \o TokensBeforeEnd(Tail(evs))

StreamTokens(s) == TokensBeforeEnd(sent[s])

CancelEmitted(s) ==
    \E i \in DOMAIN emitted :
        emitted[i].type = "chat:cancel" /\ emitted[i].socketId = s

\* ------------------------------------------------------------- chat page
\* ChatInput's disabled attribute.
InputDisabled == streaming \/ (isNewChat /\ ~modelSelected)

\* The page shows the input: not the spinner, not the error panel.
InputShown == ~loading /\ error = "null" /\ ~destroyed

\* An onComplete callback that does not clear activeSocketId.
ActiveAfterCompleteKept(cur) == cur

\* activeSocketId after the onComplete callback.
ActiveAfterComplete(cur) == NoStream

\* messages after the onComplete callback: the streamed text is appended as
\* an assistant message (Date.now() of its id is abstracted by its position).
WithAssistantMessage ==
    Append(messages,
           [id |-> <<"stream", Len(messages) + 1>>,
            role |-> "assistant",
            content |-> streamedMessage])

\* The onComplete callback handleSendMessage passes to streamChatResponse,
\* run for stream id s.
OnComplete(s) ==
    /\ messages' = WithAssistantMessage
    /\ streaming' = FALSE
    /\ streamedMessage' = <<>>
    /\ activeSocketId' = ActiveAfterComplete(activeSocketId)
    /\ completed' = [completed EXCEPT ![s] = Append(@, streamedMessage)]

\* The onToken callback.
OnToken(t) ==
    /\ streamedMessage' = Append(streamedMessage, t)
    /\ UNCHANGED <<messages, streaming, activeSocketId, completed>>

\* handleSendMessage from "Add user message to the UI immediately" on, for
\* send number k to conversation conv.  streamChatResponse has no await of
\* its own, so `activeSocketId = await ...` resumes before any socket event
\* or other handler runs: registering the listeners, the emit and the
\* assignment are one step.
Dispatch(k, message, stream, conv) ==
    /\ messages' = Append(messages,
                      [id |-> <<"temp", k>>, role |-> "user", content |-> <<message>>])
    /\ streaming' = TRUE
    /\ streamedMessage' = <<>>
    /\ IF stream
       THEN \* ApiClient.streamChatResponse
            /\ listeners' = listeners \cup StreamListeners(nextStream)
            /\ emitted' = Append(emitted, StreamRequest(conv, nextStream))
            /\ activeSocketId' = nextStream
            /\ nextStream' = nextStream + 1
            /\ UNCHANGED pendingSend
       ELSE \* await apiClient.sendChatMessage
            /\ pendingSend' = pendingSend \cup {[k |-> k, message |-> message]}
            /\ UNCHANGED <<listeners, emitted, activeSocketId, nextStream>>

\* conversationsStore.addConversation
addConversation(list, c) == <<c>> \o list

\* onMount: getConversation and its continuation are one step, nothing of
\* the page can run in between but onDestroy, which does not read what
\* onMount writes.
OnMount(resp) ==
    /\ loading
    /\ IF ~isNewChat
       THEN IF resp.status
            THEN conversation' = conversationId /\ messages' = <<>> /\ error' = error
            ELSE conversation' = conversation /\ messages' = messages /\ error' = "load"
       ELSE conversation' = NewChat /\ messages' = messages /\ error' = error
    /\ loading' = FALSE
    /\ UNCHANGED <<streaming, streamedMessage, activeSocketId, destroyed>>
    /\ UNCHANGED <<constVars, restVars, socketVars, histVars>>
    /\ UNCHANGED notChatVars

\* onDestroy
OnDestroy ==
    /\ ~destroyed
    /\ destroyed' = TRUE
    /\ emitted' = IF activeSocketId # NoStream
                  THEN Append(emitted, CancelRequest(activeSocketId))
                  ELSE emitted
    /\ UNCHANGED <<conversation, messages, loading, error, streaming,
                   streamedMessage, activeSocketId>>
    /\ UNCHANGED <<constVars, restVars, listeners, nextStream, histVars>>
    /\ UNCHANGED notChatVars

\* handleSendMessage up to its first await: the user sends a message.
Send(message, stream) ==
    /\ InputShown /\ ~InputDisabled
    /\ sendCount < MaxSends
    /\ Trim(message) # ""
    /\ sendCount' = sendCount + 1
    /\ IF isNewChat
       THEN /\ pendingCreate' = pendingCreate \cup
                    {[k |-> sendCount + 1, message |-> message, stream |-> stream]}
            /\ UNCHANGED <<messages, streaming, streamedMessage, activeSocketId,
                           pendingSend, socketVars>>
       ELSE /\ Dispatch(sendCount + 1, message, stream, conversation)
            /\ UNCHANGED pendingCreate
    /\ UNCHANGED <<conversation, loading, error, destroyed, nextConv, conversations>>
    /\ UNCHANGED <<constVars, histVars>>
    /\ UNCHANGED notChatVars

\* handleSendMessage after `await apiClient.createConversation(...)`.
CreateResponse(p, resp) ==
    /\ p \in pendingCreate
    /\ pendingCreate' = pendingCreate \ {p}
    /\ IF resp.status
       THEN /\ conversation' = CreatedIds[nextConv]
            /\ nextConv' = nextConv + 1
            /\ conversations' = addConversation(conversations, CreatedIds[nextConv])
            /\ error' = error
            /\ Dispatch(p.k, p.message, p.stream, CreatedIds[nextConv])
       ELSE /\ error' = "create"
            /\ UNCHANGED <<conversation, nextConv, conversations, messages, streaming,
                           streamedMessage, activeSocketId, pendingSend, socketVars>>
    /\ UNCHANGED <<loading, destroyed, sendCount>>
    /\ UNCHANGED <<constVars, histVars>>
    /\ UNCHANGED notChatVars

\* handleSendMessage after `await apiClient.sendChatMessage(...)`.
SendResponse(p, resp) ==
    /\ p \in pendingSend
    /\ pendingSend' = pendingSend \ {p}
    /\ IF resp.status
       THEN /\ messages' = FilterOutId(messages, <<"temp", p.k>>) \o
                    << [id |-> <<"msg", 2 * p.k - 1>>, role |-> "user",
                        content |-> <<p.message>>],
                       [id |-> <<"msg", 2 * p.k>>, role |-> "assistant",
                        content |-> <<"reply">>] >>
            /\ error' = error
       ELSE /\ error' = "send"
            /\ messages' = messages
    /\ streaming' = FALSE
    /\ UNCHANGED <<conversation, loading, streamedMessage, activeSocketId, destroyed>>
    /\ UNCHANGED <<constVars, pendingCreate, sendCount, nextConv, conversations,
                   socketVars, histVars>>
    /\ UNCHANGED notChatVars

\* ----------------------------------------------------- socket events
\* The token the backend generates next for s.
NextToken(s) == TokenText[s][Len(sent[s]) + 1]

\* The number of events the backend has sent for the stream ids in S.
RECURSIVE EventsSent(_)
EventsSent(S) ==
    IF S = {} THEN 0
    ELSE LET s == CHOOSE x \in S : TRUE
         IN Len(sent[s]) + EventsSent(S \ {s})

CanSend(s) ==
    /\ Started(s)
    /\ s \notin serverCancelled
    /\ EventsSent(StreamIds) < MaxEvents

\* The backend sends stream:<s>:token; the token listener runs if registered.
ServerToken(s) ==
    /\ CanSend(s)
    /\ sent' = [sent EXCEPT ![s] = Append(@, NextToken(s))]
    /\ IF <<s, "token">> \in listeners
       THEN OnToken(NextToken(s))
       ELSE UNCHANGED <<messages, streaming, streamedMessage, activeSocketId, completed>>
    /\ UNCHANGED <<conversation, loading, error, destroyed>>
    /\ UNCHANGED <<constVars, restVars, socketVars, serverCancelled>>
    /\ UNCHANGED notChatVars

\* The backend sends stream:<s>:done; the done listener runs if registered.
ServerDone(s) ==
    /\ CanSend(s)
    /\ sent' = [sent EXCEPT ![s] = Append(@, "done")]
    /\ IF <<s, "done">> \in listeners
       THEN /\ listeners' = listeners \ DoneOff(s)
            /\ OnComplete(s)
       ELSE UNCHANGED <<listeners, messages, streaming, streamedMessage,
                        activeSocketId, completed>>
    /\ UNCHANGED <<conversation, loading, error, destroyed>>
    /\ UNCHANGED <<constVars, restVars, emitted, nextStream, serverCancelled>>
    /\ UNCHANGED notChatVars

\* The backend sends stream:<s>:error; the error listener runs if registered.
ServerError(s) ==
    /\ CanSend(s)
    /\ sent' = [sent EXCEPT ![s] = Append(@, "error")]
    /\ IF <<s, "error">> \in listeners
       THEN /\ listeners' = listeners \ ErrorOff(s)
            /\ OnComplete(s)
       ELSE UNCHANGED <<listeners, messages, streaming, streamedMessage,
                        activeSocketId, completed>>
    /\ UNCHANGED <<conversation, loading, error, destroyed>>
    /\ UNCHANGED <<constVars, restVars, emitted, nextStream, serverCancelled>>
    /\ UNCHANGED notChatVars

\* The backend handles a chat:cancel request: it sends nothing more for s.
ServerCancel(s) ==
    /\ CancelEmitted(s)
    /\ s \notin serverCancelled
    /\ serverCancelled' = serverCancelled \cup {s}
    /\ UNCHANGED <<constVars, pageVars, restVars, socketVars, sent, completed>>
    /\ UNCHANGED notChatVars

\* ------------------------------------------------------ the parts at rest
\* selectedModel = null, with the fields of a Model.
NullModel ==
    [id |-> "null", provider |-> "null", available |-> FALSE,
     display_name |-> "null", parameters |-> [temperature |-> "null"],
     catalog |-> 0]

\* No store call has run yet.
NoCall ==
    [op |-> "none", id |-> "null", ok |-> TRUE, result |-> NullModel,
     response |-> <<>>]

\* The models store in its initial state, with no call in flight.
ModelsIdle ==
    /\ models = <<>>
    /\ selectedModel = NullModel
    /\ modelsIsLoading = FALSE
    /\ modelsError = "null"
    /\ savedModelId = "null"
    /\ pendingLoads = 0
    /\ pendingRefreshes = 0
    /\ pendingUpdates = {}
    /\ loadCount = 0
    /\ updateCount = 0
    /\ lastCall = NoCall

\* initialState of the auth store, and the store once a check or a logout
\* has found nobody logged in.
InitialAuthState == [isAuthenticated |-> FALSE, isLoading |-> TRUE, user |-> "null"]
LoggedOutState == [isAuthenticated |-> FALSE, isLoading |-> FALSE, user |-> "null"]

\* connectSocket has not run yet.
NoConnect == [called |-> FALSE, auth |-> "null", stored |-> "null"]

\* No REST call has ended yet.
NoResult ==
    [n |-> 0, kind |-> "none", rejected |-> FALSE, failed |-> FALSE,
     hasBody |-> FALSE, body |-> [status |-> TRUE, code |-> "none"],
     value |-> [status |-> TRUE, code |-> "none"]]

\* The page just loaded: module state of the auth store, the socket and the
\* ApiClient, before any call.
PageLoaded ==
    /\ navigating = FALSE
    /\ authState = InitialAuthState
    /\ socketAuth = "null"
    /\ socketState = "closed"
    /\ inflight = {}
    /\ callCount = 0
    /\ lastConnect = NoConnect
    /\ lastResult = NoResult

\* The auth part at rest, nobody logged in.
AuthIdle == PageLoaded /\ authToken = "null"

\* The retrieval pipeline at rest: nothing ingested, nothing asked, the
\* configured defaults.
ChunkIdle ==
    /\ doc = <<>>
    /\ chunkSize = chunk_size
    /\ chunkOverlap = chunk_overlap
    /\ chunks = <<>>
    /\ ingested = FALSE

RetrieveIdle ==
    /\ scores = <<>>
    /\ topK = top_k
    /\ threshold = relevance_threshold
    /\ retrieved = <<>>
    /\ answered = FALSE

\* No prompt assembled yet.
NoPrompt == [chunks |-> <<>>, turns |-> <<>>]

\* The context assembler at rest.
AssembleIdle ==
    /\ contextLength = 0
    /\ reserve = 0
    /\ systemPrompt = 0
    /\ retrievedChunks = <<>>
    /\ history = <<>>
    /\ prompt = NoPrompt
    /\ assembled = FALSE

\* currentConversation: null
NoConversation == [id |-> "null", title |-> "null", updated_at |-> 0]

\* loadConversation has not been called yet.
NoLoad == [n |-> 0, id |-> "null", status |-> FALSE, count |-> 0]

\* No call of the conversations store has ended yet.
NoConvCall == [n |-> 0, op |-> "none", id |-> "null", ok |-> TRUE]

\* initialState of the conversations store, no call in flight, an empty
\* backend.
ConvIdle ==
    /\ convList = <<>>
    /\ currentConversation = NoConversation
    /\ convIsLoading = FALSE
    /\ convError = "null"
    /\ convPending = {}
    /\ convCount = 0
    /\ serverConvs = <<>>
    /\ lastLoad = NoLoad
    /\ convLast = NoConvCall

\* The parts at rest, for the specifications of the other parts.
OthersIdle == AssembleIdle /\ ConvIdle

\* ---------------------------------------------------------- specification
ChatInit ==
    /\ conversationId \in {NewChat, ExistingChat}
    /\ modelSelected \in BOOLEAN
    /\ conversation = "null"
    /\ messages = <<>>
    /\ loading = TRUE
    /\ error = "null"
    /\ streaming = FALSE
    /\ streamedMessage = <<>>
    /\ activeSocketId = NoStream
    /\ destroyed = FALSE
    /\ pendingCreate = {}
    /\ pendingSend = {}
    /\ sendCount = 0
    /\ conversations = <<>>
    /\ listeners = {}
    /\ emitted = <<>>
    /\ nextStream = 1
    /\ nextConv = 1
    /\ serverCancelled = {}
    /\ sent = [s \in StreamIds |-> <<>>]
    /\ completed = [s \in StreamIds |-> <<>>]

Init == ChatInit /\ ModelsIdle /\ AuthIdle /\ ChunkIdle /\ RetrieveIdle /\ OthersIdle

\* The chat page at rest: not mounted, nothing sent.
ChatIdle == ChatInit /\ conversationId = ExistingChat /\ modelSelected = FALSE

Next ==
    \/ \E resp \in ApiResponses : OnMount(resp)
    \/ OnDestroy
    \/ \E m \in Messages, st \in BOOLEAN : Send(m, st)
    \/ \E p \in pendingCreate, resp \in ApiResponses : CreateResponse(p, resp)
    \/ \E p \in pendingSend, resp \in ApiResponses : SendResponse(p, resp)
    \/ \E s \in StreamIds : ServerToken(s)
    \/ \E s \in StreamIds : ServerDone(s)
    \/ \E s \in StreamIds : ServerError(s)
    \/ \E s \in StreamIds : ServerCancel(s)

Spec == Init /\ [][Next]_vars

\* REST calls end: axios is created with a 30 s timeout, so every awaited
\* call resolves and its continuation runs.  Nothing makes the backend send
\* a socket event, so the socket events carry no fairness.
LiveSpec ==
    /\ Spec
    /\ WF_vars(\E resp \in ApiResponses : OnMount(resp))
    /\ WF_vars(\E p \in pendingCreate, resp \in ApiResponses : CreateResponse(p, resp))
    /\ WF_vars(\E p \in pendingSend, resp \in ApiResponses : SendResponse(p, resp))

\* ------------------------------------------------------------- properties
TypeOK ==
    /\ conversationId \in {NewChat, ExistingChat}
    /\ modelSelected \in BOOLEAN
    /\ loading \in BOOLEAN /\ streaming \in BOOLEAN /\ destroyed \in BOOLEAN
    /\ error \in {"null", "load", "create", "send"}
    /\ activeSocketId \in {NoStream} \cup StreamIds
    /\ sendCount \in 0..MaxSends
    /\ nextStream \in 1..(MaxSends + 1)
    /\ nextConv \in 1..(MaxSends + 1)
    /\ listeners \subseteq UNION {StreamListeners(s) : s \in StreamIds}
    /\ serverCancelled \subseteq StreamIds

\* The assistant messages the onComplete callback has appended.
StreamMessages == {i \in DOMAIN messages : messages[i].id[1] = "stream"}

\* What the page holds that a caller or the template can read.
PageView == <<messages, streaming, streamedMessage, activeSocketId, error>>

\* This step runs the error listener of stream id s.
ErrorListenerRuns(s) ==
    /\ <<s, "error">> \in listeners
    /\ sent'[s] = Append(sent[s], "error")

\* This step is the continuation of a non-streaming send whose request failed.
NonStreamingSendFails ==
    /\ pendingSend' # pendingSend
    /\ pendingSend' \subseteq pendingSend
    /\ messages' = messages

\* This step is handleSendMessage appending the user's message.
UserMessageAppended ==
    /\ Len(messages') = Len(messages) + 1
    /\ Last(messages').role = "user"

\* C1: when a stream's first terminal event is done, the assistant message
\* appended for it holds exactly the tokens sent for that stream before the
\* done event, in the order sent.
C1_DoneContentIsStreamTokens ==
    \A s \in StreamIds :
        (Ended(s) = "done" /\ completed[s] # <<>>) => completed[s][1] = StreamTokens(s)

\* C2: once the page has emitted chat:cancel for a stream, no step runs
\* onComplete for that stream.
C2_NoCompletionAfterCancel ==
    [][\A s \in StreamIds : CancelEmitted(s) => completed'[s] = completed[s]]_vars

\* C3: an event sent for a stream id that has already had its done or error
\* event leaves streamedMessage, messages and streaming unchanged.
C3_TerminalIsSink ==
    [][\A s \in StreamIds :
          (Ended(s) # "none" /\ sent'[s] # sent[s])
              => UNCHANGED <<streamedMessage, messages, streaming>>]_vars

C3_Witness ==
    \E s \in StreamIds :
        /\ Ended(s) # "none"
        /\ Len(sent[s]) > Len(StreamTokens(s)) + 1

\* C4: onComplete runs at most once per stream id, and the assistant messages
\* appended by onComplete are as many as the streams that have ended.
C4_CompletedAtMostOnce ==
    /\ \A s \in StreamIds : Len(completed[s]) <= 1
    /\ Cardinality(StreamMessages) = Cardinality({s \in StreamIds : Ended(s) # "none"})

C4_Witness ==
    \E s \in StreamIds :
        /\ \E i \in DOMAIN sent[s] : sent[s][i] = "done"
        /\ \E i \in DOMAIN sent[s] : sent[s][i] = "error"
        /\ Len(completed[s]) = 1

\* C5: while streaming is true no step starts another stream, and no send
\* resets or alters streamedMessage.
C5_NoSecondGeneration ==
    [][streaming =>
          /\ nextStream' = nextStream
          /\ (UserMessageAppended => streamedMessage' = streamedMessage)]_vars

\* C6: when two streams are active at the same time, the output accumulated
\* for each of them is exactly its own tokens in order.
C6_IndependentSessions ==
    \A s, t \in StreamIds :
        (s # t /\ Active(s) /\ Active(t))
            => /\ streamedMessage = StreamTokens(s)
               /\ streamedMessage = StreamTokens(t)

\* C7: whenever streaming is true for a streamed request, streaming
\* eventually becomes false.
C7_StreamingEventuallyEnds ==
    (streaming /\ activeSocketId # NoStream) ~> ~streaming

\* C8: after a stream's error event the page holds the tokens received up to
\* the error and an error indication.
C8_PartialOutputWithError ==
    \A s \in StreamIds :
        Ended(s) = "error"
            => /\ completed[s] # <<>>
               /\ completed[s][1] = StreamTokens(s)
               /\ error # "null"

\* C9: what the page holds after a stream's error event differs from what it
\* would hold after a done event in the same state, and a failed
\* non-streaming send sets the page's error.
C9_TaggedResult ==
    [][/\ \A s \in StreamIds :
             ErrorListenerRuns(s)
                 => PageView' # <<WithAssistantMessage, FALSE, <<>>, NoStream, error>>
       /\ NonStreamingSendFails => error' # "null"]_vars

\* C10: a chat:cancel is emitted only for the stream id held in
\* activeSocketId, that stream is still active (neither completed nor
\* failed), and at most one chat:cancel is ever emitted.
C10_CancelOnlyActive ==
    [][\A s \in StreamIds :
          (CancelEmitted(s)' /\ ~CancelEmitted(s))
              => /\ activeSocketId = s
                 /\ Active(s)
                 /\ Ended(s) = "none"
                 /\ \A i \in DOMAIN emitted : emitted[i].type # "chat:cancel"]_vars

C10_Witness ==
    /\ ~isNewChat
    /\ destroyed
    /\ \E s \in StreamIds : Ended(s) # "none" /\ completed[s] # <<>>
    /\ \A i \in DOMAIN emitted : emitted[i].type # "chat:cancel"


\* ========================================================== models store
\* The ids of the models the backend knows, and an id in no catalog.
ModelIds == {"llama", "mistral", "gpt", "claude"}
GhostId == "gpt-ghost"
\* The ids callers ask the store for.
RequestedIds == {"llama", "gpt", GhostId}
\* The ids and parameter names callers update.
UpdatedIds == {"llama", GhostId}
UpdatedKeys == {"temperature", "top_k"}

\* Model.provider of the backend's models.
ProviderOf(id) ==
    CASE id = "llama" -> "ollama"
      [] id = "mistral" -> "ollama"
      [] id = "gpt" -> "openai"
      [] id = "claude" -> "anthropic"

\* Model.display_name of the backend's models.
DisplayName(id) ==
    CASE id = "llama" -> "Llama 3"
      [] id = "mistral" -> "Mistral"
      [] id = "gpt" -> "GPT-4"
      [] id = "claude" -> "Claude 3"

\* The place of a display name in the collation order.
NameRank(name) ==
    CASE name = "Claude 3" -> 1
      [] name = "GPT-4" -> 2
      [] name = "Llama 3" -> 3
      [] name = "Mistral" -> 4

\* String.prototype.localeCompare
LocaleCompare(a, b) ==
    IF a = b THEN 0 ELSE IF NameRank(a) < NameRank(b) THEN -1 ELSE 1

\* A model of catalog number gen as the backend returns it.
BackendModel(id, avail, gen) ==
    [id |-> id, provider |-> ProviderOf(id), available |-> avail,
     display_name |-> DisplayName(id), parameters |-> [temperature |-> "default"],
     catalog |-> gen]

Range(q) == {q[i] : i \in DOMAIN q}

\* The id lists of the catalogs: no id twice, any order.
IdLists ==
    {q \in UNION {[1..n -> ModelIds] : n \in 0..MaxModels} :
        \A i, j \in DOMAIN q : i # j => q[i] # q[j]}

\* response.data.models of catalog number gen: the models of q, those of
\* avail marked available.
Catalog(q, avail, gen) == [i \in DOMAIN q |-> BackendModel(q[i], q[i] \in avail, gen)]

\* The comparator loadModels passes to sort.
Compare(a, b) ==
    IF a.available # b.available THEN (IF a.available THEN -1 ELSE 1)
    ELSE IF a.provider # b.provider THEN (IF a.provider = "ollama" THEN -1 ELSE 1)
    ELSE LocaleCompare(a.display_name, b.display_name)

\* Compare is a consistent comparator (ECMAScript, Array.prototype.sort) for
\* the models of S.
ConsistentOn(S) ==
    /\ \A a \in S : Compare(a, a) = 0
    /\ \A a, b \in S : (Compare(a, b) < 0) <=> (Compare(b, a) > 0)
    /\ \A a, b, c \in S :
          (Compare(a, b) <= 0 /\ Compare(b, c) <= 0) => Compare(a, c) <= 0

Front(q) == SubSeq(q, 1, Len(q) - 1)

\* x put into the sorted list: behind every element it does not precede.
RECURSIVE Insert(_, _)
Insert(x, sorted) ==
    IF sorted = <<>> THEN <<x>>
    ELSE IF Compare(x, Last(sorted)) < 0
         THEN Append(Insert(x, Front(sorted)), Last(sorted))
         ELSE Append(sorted, x)

\* The stable sort of ms by Compare.
RECURSIVE StableSort(_)
StableSort(ms) ==
    IF ms = <<>> THEN <<>> ELSE Insert(Last(ms), StableSort(Front(ms)))

\* Every order of the elements of ms.
Permutations(ms) ==
    {[i \in DOMAIN ms |-> ms[f[i]]] :
        f \in {g \in [DOMAIN ms -> DOMAIN ms] : \A i, j \in DOMAIN ms : i # j => g[i] # g[j]}}

\* What models.sort(comparator) can leave: the stable order when the
\* comparator is consistent for the elements; otherwise the order is
\* implementation-defined (ECMAScript), any order of the elements.
SortOutcomes(ms) ==
    IF ConsistentOn(Range(ms)) THEN {StableSort(ms)} ELSE Permutations(ms)

\* A find that falls back to the first model of the list.
FindByIdOrFirst(ms, id) ==
    IF \E i \in DOMAIN ms : ms[i].id = id
    THEN ms[CHOOSE i \in DOMAIN ms : ms[i].id = id]
    ELSE IF ms = <<>> THEN NullModel ELSE ms[1]

\* models.find(m => m.id === id) || null
RECURSIVE FindById(_, _)
FindById(ms, id) ==
    IF ms = <<>> THEN NullModel
    ELSE IF Head(ms).id = id THEN Head(ms)
         ELSE FindById(Tail(ms), id)

\* models.find(m => m.available) || models[0], for a non-empty list
RECURSIVE FirstAvailableFrom(_, _)
FirstAvailableFrom(ms, all) ==
    IF ms = <<>> THEN all[1]
    ELSE IF Head(ms).available THEN Head(ms)
         ELSE FirstAvailableFrom(Tail(ms), all)

\* A selection that takes the first model whatever its availability.
LoadSelectionFirst(ms, saved) ==
    LET bySaved == IF saved # "null" THEN FindById(ms, saved) ELSE NullModel
    IN IF bySaved = NullModel /\ Len(ms) > 0 THEN ms[1] ELSE bySaved

\* A selection that keeps the model selected before the load.
LoadSelectionStale(ms, saved) ==
    LET bySaved == IF saved # "null" THEN FindById(ms, saved) ELSE NullModel
    IN IF selectedModel # NullModel THEN selectedModel
       ELSE IF bySaved = NullModel /\ Len(ms) > 0
            THEN FirstAvailableFrom(ms, ms) ELSE bySaved

\* The model loadModels selects in the sorted list ms, saved being
\* localStorage's selected_model_id.
LoadSelection(ms, saved) ==
    LET bySaved == IF saved # "null" THEN FindById(ms, saved) ELSE NullModel
    IN IF bySaved = NullModel /\ Len(ms) > 0
       THEN FirstAvailableFrom(ms, ms) ELSE bySaved

\* A failure branch that drops the list.
KeptOnFailureCleared(x, empty) == empty

\* `...state` in the failure branches of loadModels and refreshModels: the
\* field keeps its value x.
KeptOnFailure(x, empty) == x

\* updateModelParameters' new parameters of model m for {key: value}.
UpdatedParameters(m, key, value) ==
    IF key \in DOMAIN m.parameters
    THEN [m EXCEPT !.parameters[key] = value]
    ELSE m

\* An update that leaves the selected model as it was.
UpdatedSelectionStale(selected, found, id) == selected

\* state.selectedModel?.id === modelId
\*   ? updatedModels.find(m => m.id === modelId) || state.selectedModel
\*   : state.selectedModel
UpdatedSelection(selected, found, id) ==
    IF selected.id = id
    THEN (IF found # NullModel THEN found ELSE selected)
    ELSE selected

\* The parts other than the models store.
notModelsVars == <<chatVars, authVars, chunkVars, retrieveVars, assembleVars, convVars>>

\* loadModels up to its await.
LoadModels ==
    /\ loadCount < MaxLoads
    /\ loadCount' = loadCount + 1
    /\ modelsIsLoading' = TRUE
    /\ modelsError' = "null"
    /\ pendingLoads' = pendingLoads + 1
    /\ UNCHANGED <<models, selectedModel, savedModelId, pendingRefreshes,
                   pendingUpdates, updateCount, lastCall>>
    /\ UNCHANGED notModelsVars

\* loadModels after `await apiClient.getModels()`, status true, the backend
\* returning the catalog of q and avail.
LoadSucceeds(q, avail) ==
    /\ pendingLoads > 0
    /\ pendingLoads' = pendingLoads - 1
    /\ \E sorted \in SortOutcomes(Catalog(q, avail, loadCount)) :
          /\ models' = sorted
          /\ selectedModel' = LoadSelection(sorted, savedModelId)
    /\ modelsIsLoading' = FALSE
    /\ savedModelId' = IF selectedModel' # NullModel THEN selectedModel'.id
                       ELSE savedModelId
    /\ lastCall' = [op |-> "loadModels", id |-> savedModelId, ok |-> TRUE,
                    result |-> selectedModel',
                    response |-> Catalog(q, avail, loadCount)]
    /\ UNCHANGED <<modelsError, pendingRefreshes, pendingUpdates, loadCount, updateCount>>
    /\ UNCHANGED notModelsVars

\* loadModels after `await apiClient.getModels()`, status false.
LoadFails ==
    /\ pendingLoads > 0
    /\ pendingLoads' = pendingLoads - 1
    /\ models' = KeptOnFailure(models, <<>>)
    /\ selectedModel' = KeptOnFailure(selectedModel, NullModel)
    /\ modelsError' = "load"
    /\ modelsIsLoading' = FALSE
    /\ lastCall' = [op |-> "loadModels", id |-> savedModelId, ok |-> FALSE,
                    result |-> NullModel, response |-> <<>>]
    /\ UNCHANGED <<savedModelId, pendingRefreshes, pendingUpdates, loadCount, updateCount>>
    /\ UNCHANGED notModelsVars

\* refreshModels up to its await.
RefreshModels ==
    /\ loadCount < MaxLoads
    /\ loadCount' = loadCount + 1
    /\ modelsIsLoading' = TRUE
    /\ modelsError' = "null"
    /\ pendingRefreshes' = pendingRefreshes + 1
    /\ UNCHANGED <<models, selectedModel, savedModelId, pendingLoads,
                   pendingUpdates, updateCount, lastCall>>
    /\ UNCHANGED notModelsVars

\* refreshModels after `await apiClient.refreshModels()`.  On status true
\* it evaluates `this.loadModels()`: the store's methods are arrow functions
\* of createModelsStore(), a plain call in a module, so `this` is undefined,
\* the call throws a TypeError and the catch branch runs.  On status false
\* the else branch runs.  Both set only error and isLoading.
RefreshEnds(resp) ==
    /\ pendingRefreshes > 0
    /\ pendingRefreshes' = pendingRefreshes - 1
    /\ models' = KeptOnFailure(models, <<>>)
    /\ selectedModel' = KeptOnFailure(selectedModel, NullModel)
    /\ modelsError' = IF resp.status THEN "refresh threw" ELSE "refresh"
    /\ modelsIsLoading' = FALSE
    /\ lastCall' = [op |-> "refreshModels", id |-> "null", ok |-> FALSE,
                    result |-> NullModel, response |-> <<>>]
    /\ UNCHANGED <<savedModelId, pendingLoads, pendingUpdates, loadCount, updateCount>>
    /\ UNCHANGED notModelsVars

\* selectModel
SelectModel(id) ==
    /\ selectedModel' = FindById(models, id)
    /\ savedModelId' = IF selectedModel' # NullModel THEN selectedModel'.id
                       ELSE savedModelId
    /\ lastCall' = [op |-> "selectModel", id |-> id, ok |-> TRUE,
                    result |-> selectedModel', response |-> <<>>]
    /\ UNCHANGED <<models, modelsIsLoading, modelsError, pendingLoads,
                   pendingRefreshes, pendingUpdates, loadCount, updateCount>>
    /\ UNCHANGED notModelsVars

\* getModel
GetModel(id) ==
    /\ lastCall' = [op |-> "getModel", id |-> id, ok |-> TRUE,
                    result |-> FindById(models, id), response |-> <<>>]
    /\ UNCHANGED <<models, selectedModel, modelsIsLoading, modelsError, savedModelId,
                   pendingLoads, pendingRefreshes, pendingUpdates, loadCount,
                   updateCount>>
    /\ UNCHANGED notModelsVars

\* updateModelParameters up to its await.
UpdateModelParameters(id, key) ==
    /\ updateCount < MaxUpdates
    /\ updateCount' = updateCount + 1
    /\ pendingUpdates' = pendingUpdates \cup
            {[n |-> updateCount + 1, id |-> id, key |-> key]}
    /\ UNCHANGED <<models, selectedModel, modelsIsLoading, modelsError, savedModelId,
                   pendingLoads, pendingRefreshes, loadCount, lastCall>>
    /\ UNCHANGED notModelsVars

\* updateModelParameters after its await.
UpdateEnds(p, resp) ==
    /\ p \in pendingUpdates
    /\ pendingUpdates' = pendingUpdates \ {p}
    /\ IF resp.status
       THEN LET updatedModels ==
                    [i \in DOMAIN models |->
                        IF models[i].id = p.id
                        THEN UpdatedParameters(models[i], p.key, "custom")
                        ELSE models[i]]
                found == FindById(updatedModels, p.id)
            IN /\ models' = updatedModels
               /\ selectedModel' = UpdatedSelection(selectedModel, found, p.id)
       ELSE UNCHANGED <<models, selectedModel>>
    /\ lastCall' = [op |-> "updateModelParameters", id |-> p.id, ok |-> resp.status,
                    result |-> NullModel, response |-> <<>>]
    /\ UNCHANGED <<modelsIsLoading, modelsError, savedModelId, pendingLoads,
                   pendingRefreshes, loadCount, updateCount>>
    /\ UNCHANGED notModelsVars

\* reset
ResetModels ==
    /\ models' = <<>>
    /\ selectedModel' = NullModel
    /\ modelsIsLoading' = FALSE
    /\ modelsError' = "null"
    /\ lastCall' = [op |-> "reset", id |-> "null", ok |-> TRUE,
                    result |-> NullModel, response |-> <<>>]
    /\ UNCHANGED <<savedModelId, pendingLoads, pendingRefreshes, pendingUpdates,
                   loadCount, updateCount>>
    /\ UNCHANGED notModelsVars

ModelsInit ==
    ModelsIdle /\ ChatIdle /\ AuthIdle /\ ChunkIdle /\ RetrieveIdle /\ OthersIdle

ModelsNext ==
    \/ LoadModels
    \/ \E q \in IdLists : \E avail \in SUBSET Range(q) : LoadSucceeds(q, avail)
    \/ LoadFails
    \/ RefreshModels
    \/ \E resp \in ApiResponses : RefreshEnds(resp)
    \/ \E id \in RequestedIds : SelectModel(id)
    \/ \E id \in RequestedIds : GetModel(id)
    \/ \E id \in UpdatedIds, key \in UpdatedKeys : UpdateModelParameters(id, key)
    \/ \E p \in pendingUpdates, resp \in ApiResponses : UpdateEnds(p, resp)
    \/ ResetModels

ModelsSpec == ModelsInit /\ [][ModelsNext]_vars

\* ----------------------------------------------------------------- C11
\* The store's list has a model with this id.
Listed(id) == \E i \in DOMAIN models : models[i].id = id

\* C11: selection is by exact match on the id.  After selectModel(id) the
\* selected model is the listed model with that id, and null when the list
\* has no model with that id; getModel(id) returns the listed model with
\* that id, and null when there is none.  Neither yields another model.
C11_SelectionByExactId ==
    /\ lastCall.op = "selectModel" =>
          IF Listed(lastCall.id)
          THEN selectedModel.id = lastCall.id /\ selectedModel \in Range(models)
          ELSE selectedModel = NullModel
    /\ lastCall.op = "getModel" =>
          IF Listed(lastCall.id)
          THEN lastCall.result.id = lastCall.id /\ lastCall.result \in Range(models)
          ELSE lastCall.result = NullModel

\* selectModel("gpt-ghost") on a loaded list that had a model selected.
C11_Witness ==
    /\ lastCall.op = "selectModel"
    /\ lastCall.id = GhostId
    /\ models # <<>>
    /\ selectedModel = NullModel
    /\ savedModelId # "null"

\* ----------------------------------------------------------------- C12
\* C12: a requested or saved model is never silently substituted.  After a
\* loadModels that found an id saved in localStorage, and after a
\* selectModel(id), the selected model is the model with that id or null:
\* no other model is selected in its place.
C12_NoSilentSubstitution ==
    /\ (lastCall.op = "loadModels" /\ lastCall.ok /\ lastCall.id # "null") =>
          (selectedModel = NullModel \/ selectedModel.id = lastCall.id)
    /\ lastCall.op = "selectModel" =>
          (selectedModel = NullModel \/ selectedModel.id = lastCall.id)

\* ----------------------------------------------------------------- C13
\* C13: the presentation order is deterministic.  After a loadModels the
\* comparator is a consistent total order on the models returned, and
\* the list in the store is what every order of the same models sorts to:
\* it depends on the set of models only.
C13_OrderDependsOnSetOnly ==
    (lastCall.op = "loadModels" /\ lastCall.ok) =>
        /\ ConsistentOn(Range(lastCall.response))
        /\ \A p \in Permutations(lastCall.response) : SortOutcomes(p) = {models}

\* ----------------------------------------------------------------- C14
\* C14: the catalog is replaced atomically.  In every state the models of
\* the list all come from one catalog, and a selected model comes from that
\* same catalog and is listed in it, however loadModels, selectModel and
\* updateModelParameters interleave.
C14_CatalogReplacedAtomically ==
    /\ \A i, j \in DOMAIN models : models[i].catalog = models[j].catalog
    /\ selectedModel # NullModel =>
          \E i \in DOMAIN models :
              /\ models[i].id = selectedModel.id
              /\ models[i].catalog = selectedModel.catalog

\* A second catalog has replaced the first while a model of the first was
\* selected, and an update of the first catalog's model has been answered.
C14_Witness ==
    /\ lastCall.op = "updateModelParameters"
    /\ lastCall.ok
    /\ loadCount = 2
    /\ pendingLoads = 0
    /\ selectedModel # NullModel
    /\ selectedModel.catalog = 2
    /\ selectedModel.parameters.temperature = "custom"

\* ----------------------------------------------------------------- C15
\* A step in which a loadModels or refreshModels call ends in failure.
RefreshFailed ==
    \/ pendingLoads' = pendingLoads - 1 /\ ~lastCall'.ok
    \/ pendingRefreshes' = pendingRefreshes - 1

\* C15: a failed refresh does not erase known models.  A step in which
\* loadModels or refreshModels ends in failure leaves the list, the selected
\* model and every other field but error and isLoading as they were.
C15_FailedRefreshKeepsModels ==
    [][RefreshFailed =>
          UNCHANGED <<models, selectedModel, savedModelId, pendingUpdates>>]_vars

\* A load has failed on a store that holds models and a selected model.
C15_Witness ==
    /\ lastCall.op \in {"loadModels", "refreshModels"}
    /\ ~lastCall.ok
    /\ modelsError # "null"
    /\ ~modelsIsLoading
    /\ models # <<>>
    /\ selectedModel # NullModel

\* ============================================== auth store, ApiClient, socket
\* The tokens the backend issues at login and registration.
Tokens == {"t1", "t2"}

\* The users' REST calls: login, register, checkAuth's getUserProfile, and
\* any other method of ApiClient (getConversations, ...).
CallKinds == {"login", "register", "profile", "rest"}

\* The body of a successful response.
OkBody == [status |-> TRUE, code |-> "none"]

\* How a request ends in axios: a 2xx response, or a rejection with one of
\* AxiosErrors, whose HTTP status is 401 or another one.
HttpOutcomes ==
    {[ok |-> TRUE, unauthorized |-> FALSE,
      err |-> [hasResponse |-> FALSE, hasData |-> FALSE,
               data |-> [status |-> FALSE, code |-> "none"]]]}
    \cup {o \in [ok : {FALSE}, unauthorized : BOOLEAN, err : AxiosErrors] :
            o.unauthorized => o.err.hasResponse}

\* The request interceptor: config.headers.Authorization.
RequestInterceptor(token) ==
    IF token # "null" THEN <<"Bearer", token>> ELSE <<>>

\* error.response && error.response.status === 401
Unauthorized(out) == ~out.ok /\ out.unauthorized

\* The response interceptor's effect on localStorage and on the location.
TokenAfterInterceptor(out, token) == IF Unauthorized(out) THEN "null" ELSE token
NavigatingAfterInterceptor(out, nav) == IF Unauthorized(out) THEN TRUE ELSE nav

\* What the REST method resolves to: response.data, or handleError(error)
\* from its catch block.
Resolved(out) == IF out.ok THEN OkBody ELSE handleError(out.err)

\* The server's answer carried a body.
HasBody(out) == out.ok \/ (out.err.hasResponse /\ out.err.hasData)
BodyOf(out) == IF out.ok THEN OkBody ELSE out.err.data

\* The store after a successful login, registration or profile request.
AuthenticatedState == [isAuthenticated |-> TRUE, isLoading |-> FALSE, user |-> "user"]

\* connectSocket(), token being localStorage's auth_token: the overridden
\* connect sets socketInstance.auth only when a token is stored.
ConnectSocket(token) ==
    IF socketState # "open"
    THEN /\ socketAuth' = IF token # "null" THEN token ELSE socketAuth
         /\ socketState' = IF socketState = "closed" THEN "opening" ELSE socketState
         /\ lastConnect' = [called |-> TRUE, auth |-> socketAuth', stored |-> token]
    ELSE UNCHANGED <<socketAuth, socketState, lastConnect>>

\* A disconnectSocket() that leaves the socket as it is.
DisconnectSocketNever == UNCHANGED <<socketState, socketAuth, lastConnect>>

\* A failed check that leaves the token in localStorage.
TokenKeptAfterFailedCheck(token) == token

\* checkAuth on a failed profile request: localStorage.removeItem.
TokenAfterFailedCheck(token) == "null"

\* disconnectSocket(): only a connected socket is disconnected.
DisconnectSocket ==
    /\ socketState' = IF socketState = "open" THEN "closed" ELSE socketState
    /\ UNCHANGED <<socketAuth, lastConnect>>

\* The request a REST method sends: the interceptor reads the token now.
Request(kind) ==
    [n |-> callCount + 1, kind |-> kind, headers |-> RequestInterceptor(authToken),
     stored |-> authToken]

\* The parts other than the auth store, the ApiClient and the socket.
notAuthVars == <<chatVars, modelsVars, chunkVars, retrieveVars, assembleVars, convVars>>

\* login and register up to `await axiosInstance.post`; any other REST method
\* up to its await.
SendCall(kind) ==
    /\ kind # "profile"
    /\ callCount < MaxCalls
    /\ callCount' = callCount + 1
    /\ inflight' = inflight \cup {Request(kind)}
    /\ UNCHANGED <<authToken, navigating, authState, socketAuth, socketState,
                   lastConnect, lastResult>>
    /\ UNCHANGED notAuthVars

\* checkAuth up to `await apiClient.getUserProfile()`, or to its return when
\* no token is stored.
CheckAuth ==
    /\ IF authToken = "null"
       THEN /\ authState' = LoggedOutState
            /\ UNCHANGED <<inflight, callCount>>
       ELSE /\ callCount < MaxCalls
            /\ callCount' = callCount + 1
            /\ inflight' = inflight \cup {Request("profile")}
            /\ UNCHANGED authState
    /\ UNCHANGED <<authToken, navigating, socketAuth, socketState, lastConnect,
                   lastResult>>
    /\ UNCHANGED notAuthVars

\* logout
Logout ==
    /\ authToken' = "null"
    /\ DisconnectSocket
    /\ authState' = LoggedOutState
    /\ UNCHANGED <<navigating, inflight, callCount, lastResult>>
    /\ UNCHANGED notAuthVars

\* The answer to request r arrives: the response interceptor, the REST
\* method's try/catch, and the continuation of the store method awaiting it.
\* t is the token in the body of a successful login or registration.
Respond(r, out, t) ==
    /\ r \in inflight
    /\ inflight' = inflight \ {r}
    /\ navigating' = NavigatingAfterInterceptor(out, navigating)
    /\ lastResult' =
          [n |-> r.n, kind |-> r.kind, rejected |-> FALSE, failed |-> ~out.ok,
           hasBody |-> HasBody(out), body |-> BodyOf(out), value |-> Resolved(out)]
    /\ CASE r.kind \in {"login", "register"} ->
              IF Resolved(out).status
              THEN /\ authToken' = t
                   /\ authState' = AuthenticatedState
                   /\ ConnectSocket(t)
              ELSE /\ authToken' = TokenAfterInterceptor(out, authToken)
                   /\ UNCHANGED <<authState, socketAuth, socketState, lastConnect>>
         [] r.kind = "profile" ->
              IF Resolved(out).status
              THEN /\ authToken' = authToken
                   /\ authState' = AuthenticatedState
                   /\ ConnectSocket(authToken)
              ELSE /\ authToken' = TokenAfterFailedCheck(authToken)
                   /\ authState' = LoggedOutState
                   /\ UNCHANGED <<socketAuth, socketState, lastConnect>>
         [] r.kind = "rest" ->
              /\ authToken' = TokenAfterInterceptor(out, authToken)
              /\ UNCHANGED <<authState, socketAuth, socketState, lastConnect>>
    /\ UNCHANGED callCount
    /\ UNCHANGED notAuthVars

\* The socket's connection is established.
SocketOpens ==
    /\ socketState = "opening"
    /\ socketState' = "open"
    /\ UNCHANGED <<authToken, navigating, authState, socketAuth, inflight, callCount,
                   lastConnect, lastResult>>
    /\ UNCHANGED notAuthVars

\* The browser follows window.location.href = '/login': the page unloads,
\* the modules are evaluated anew and localStorage stays.
PageUnload ==
    /\ navigating
    /\ navigating' = FALSE
    /\ authState' = InitialAuthState
    /\ socketAuth' = "null"
    /\ socketState' = "closed"
    /\ inflight' = {}
    /\ callCount' = 0
    /\ lastConnect' = NoConnect
    /\ lastResult' = NoResult
    /\ UNCHANGED authToken
    /\ UNCHANGED notAuthVars

AuthInit ==
    /\ PageLoaded
    /\ authToken \in {"null"} \cup Tokens
    /\ ChatIdle /\ ModelsIdle /\ ChunkIdle /\ RetrieveIdle /\ OthersIdle

AuthNext ==
    \/ \E kind \in CallKinds : SendCall(kind)
    \/ CheckAuth
    \/ Logout
    \/ \E r \in inflight, out \in HttpOutcomes, t \in Tokens : Respond(r, out, t)
    \/ SocketOpens
    \/ PageUnload

AuthSpec == AuthInit /\ [][AuthNext]_vars

\* ----------------------------------------------------------------- C16
\* A step in which a REST call ends.
CallEnds == callCount' = callCount /\ inflight' # inflight

\* C16: no failure escapes its call.  Every REST call that ends resolves
\* (it does not reject); the value is the server's body when the answer had
\* one and {status: false, code: unknown_error} otherwise; and when a call
\* other than checkAuth's ends in failure, the stored token, the page, the
\* auth store, the socket and the other calls in flight are left as they
\* were.
C16_NoFailureEscapes ==
    [][CallEnds =>
          /\ ~lastResult'.rejected
          /\ lastResult'.value =
                IF lastResult'.hasBody THEN lastResult'.body
                ELSE [status |-> FALSE, code |-> "unknown_error"]
          /\ (lastResult'.failed /\ lastResult'.kind # "profile") =>
                /\ UNCHANGED <<authToken, navigating, authState, socketAuth, socketState>>
                /\ \E r \in inflight : inflight' = inflight \ {r}]_vars

\* ----------------------------------------------------------------- C17
\* C17: the token is read from localStorage at the moment of use.  Every
\* REST request in flight carries Authorization: Bearer <the token stored
\* when it was sent> and no such header when none was stored; and the last
\* connect() of connectSocket authenticated with the token stored at that
\* moment.
C17_TokenReadAtUse ==
    /\ \A r \in inflight :
          r.headers = IF r.stored # "null" THEN <<"Bearer", r.stored>> ELSE <<>>
    /\ lastConnect.called => lastConnect.auth = lastConnect.stored

\* =================================================== retrieval pipeline: ingest
\* The characters of the documents.
Characters == {"a", "b"}

\* The documents ingested.
Documents == UNION {[1..n -> Characters] : n \in 0..MaxDocLen}

\* A chunk end that runs one character over chunk_size.
ChunkEndOver(p, n, S) == IF p + S + 1 < n THEN p + S + 1 ELSE n

\* The end offset of the chunk starting at p in a document of n characters.
ChunkEnd(p, n, S) == IF p + S < n THEN p + S ELSE n

\* A stride that leaves no overlap.
StrideNoOverlap(S, O) == S

\* The distance between the starts of consecutive chunks.
Stride(S, O) == S - O

\* The start offsets of the chunks from offset p on: a window of S
\* characters moved by the stride until it reaches the document's end.
RECURSIVE ChunkStartsFrom(_, _, _, _)
ChunkStartsFrom(p, n, S, O) ==
    IF n = 0 THEN <<>>
    ELSE IF p + S >= n THEN <<p>>
         ELSE <<p>> \o ChunkStartsFrom(p + Stride(S, O), n, S, O)

ChunkStarts(n, S, O) == ChunkStartsFrom(0, n, S, O)

\* ingest(document): the chunks of text d for chunk_size S and overlap O.
IngestChunks(d, S, O) ==
    LET starts == ChunkStarts(Len(d), S, O)
    IN [i \in DOMAIN starts |->
           [start |-> starts[i],
            text |-> SubSeq(d, starts[i] + 1, ChunkEnd(starts[i], Len(d), S))]]

\* The chunk texts concatenated in order, the first O characters of every
\* chunk but the first removed.
RECURSIVE ConcatWithoutOverlaps(_, _)
ConcatWithoutOverlaps(chs, O) ==
    IF chs = <<>> THEN <<>>
    ELSE IF Len(chs) = 1 THEN chs[1].text
         ELSE ConcatWithoutOverlaps(Front(chs), O)
              \o SubSeq(Last(chs).text, O + 1, Len(Last(chs).text))

\* The parts other than ingestion.
notChunkVars == <<chatVars, modelsVars, authVars, retrieveVars, assembleVars, convVars>>

\* ingest(document)
Ingest ==
    /\ ~ingested
    /\ chunks' = IngestChunks(doc, chunkSize, chunkOverlap)
    /\ ingested' = TRUE
    /\ UNCHANGED <<doc, chunkSize, chunkOverlap>>
    /\ UNCHANGED notChunkVars

\* The document is deleted: its chunks are destroyed.
DeleteDocument ==
    /\ ingested
    /\ chunks' = <<>>
    /\ ingested' = FALSE
    /\ UNCHANGED <<doc, chunkSize, chunkOverlap>>
    /\ UNCHANGED notChunkVars

ChunkInit ==
    /\ doc \in Documents
    /\ chunkSize \in 1..MaxChunkSize
    /\ chunkOverlap \in 0..(chunkSize - 1)
    /\ chunks = <<>>
    /\ ingested = FALSE
    /\ ChatIdle /\ ModelsIdle /\ AuthIdle /\ RetrieveIdle /\ OthersIdle

ChunkNext == Ingest \/ DeleteDocument

ChunkSpec == ChunkInit /\ [][ChunkNext]_vars

ExampleLength == 2500

Similarities == -1..MaxSimilarity

\* The similarities of the stored chunks, by chunk number.
StoredScores == UNION {[1..n -> Similarities] : n \in 0..MaxStored}

\* A filter that lets every stored chunk through.
QualifyingAll(sc, th) == DOMAIN sc

\* The stored chunks whose similarity is at least the threshold.
Qualifying(sc, th) == {i \in DOMAIN sc : sc[i] >= th}

\* The k most similar chunks of I, most similar first, the earlier chunk
\* first among equals.
RECURSIVE TopOf(_, _, _)
TopOf(sc, I, k) ==
    IF k = 0 \/ I = {} THEN <<>>
    ELSE LET best == CHOOSE i \in I :
                        \A j \in I : sc[i] > sc[j] \/ (sc[i] = sc[j] /\ i <= j)
         IN <<[chunk |-> best, similarity |-> sc[best]]>>
            \o TopOf(sc, I \ {best}, k - 1)

\* retrieve(query, top_k, relevance_threshold)
RetrieveChunks(sc, k, th) == TopOf(sc, Qualifying(sc, th), k)

\* The parts other than retrieval.
notRetrieveVars == <<chatVars, modelsVars, authVars, chunkVars, assembleVars, convVars>>

\* retrieve(query, top_k, relevance_threshold)
Retrieve ==
    /\ ~answered
    /\ retrieved' = RetrieveChunks(scores, topK, threshold)
    /\ answered' = TRUE
    /\ UNCHANGED <<scores, topK, threshold>>
    /\ UNCHANGED notRetrieveVars

\* The caller is done with the result; the next query can be asked.
NextQuery ==
    /\ answered
    /\ retrieved' = <<>>
    /\ answered' = FALSE
    /\ UNCHANGED <<scores, topK, threshold>>
    /\ UNCHANGED notRetrieveVars

RetrieveInit ==
    /\ scores \in StoredScores
    /\ topK \in 1..MaxTopK
    /\ threshold \in Similarities
    /\ retrieved = <<>>
    /\ answered = FALSE
    /\ ChatIdle /\ ModelsIdle /\ AuthIdle /\ ChunkIdle /\ OthersIdle

RetrieveNext == Retrieve \/ NextQuery

RetrieveSpec == RetrieveInit /\ [][RetrieveNext]_vars

\* ----------------------------------------------------------------- C20
\* C20: the sequence retrieve returns has at most top_k chunks, each a
\* stored chunk with its similarity, in order of non-increasing similarity,
\* none below relevance_threshold; it is the empty sequence when no stored
\* chunk reaches the threshold.
C20_RetrieveBoundedSortedFiltered ==
    answered =>
        /\ Len(retrieved) <= topK
        /\ \A i \in DOMAIN retrieved :
              /\ retrieved[i].chunk \in DOMAIN scores
              /\ retrieved[i].similarity = scores[retrieved[i].chunk]
              /\ retrieved[i].similarity >= threshold
        /\ \A i, j \in DOMAIN retrieved :
              i < j => retrieved[i].similarity >= retrieved[j].similarity
        /\ (\A c \in DOMAIN scores : scores[c] < threshold) => retrieved = <<>>

\* A query answered with top_k chunks of different similarity while
\* another stored chunk was below the threshold.
C20_Witness ==
    /\ answered
    /\ Len(retrieved) = topK
    /\ topK = 2
    /\ retrieved[1].similarity > retrieved[2].similarity
    /\ \E c \in DOMAIN scores : scores[c] < threshold

\* ============================================================ context assembler
\* The sizes of retrieved chunks and of history turns.
ItemSizes == 1..MaxItemSize

SizeLists(maxLen) == UNION {[1..n -> ItemSizes] : n \in 0..maxLen}

\* The sum of the sizes sz[i] of the items of index set I.
RECURSIVE SizeOf(_, _)
SizeOf(sz, I) ==
    IF I = {} THEN 0
    ELSE LET i == CHOOSE x \in I : TRUE IN sz[i] + SizeOf(sz, I \ {i})

\* A room for the chunks from which the whole history is taken first.
ChunkRoomAfterHistory(limit, sp, hist) == limit - sp - SizeOf(hist, DOMAIN hist)

\* The room the retrieved chunks are fitted into: the limit less the
\* system prompt, whatever the history.
ChunkRoom(limit, sp, hist) == limit - sp

\* The chunks of cs from index i on that fit into room, in rank order.
RECURSIVE FitChunks(_, _, _)
FitChunks(cs, i, room) ==
    IF i > Len(cs) THEN <<>>
    ELSE IF cs[i] <= room THEN <<i>> \o FitChunks(cs, i + 1, room - cs[i])
         ELSE FitChunks(cs, i + 1, room)

\* The most recent turns of hist, from index i down, that fit into room, in
\* chronological order: the first turn that does not fit ends the history
\* kept.
RECURSIVE FitTurns(_, _, _)
FitTurns(hist, i, room) ==
    IF i = 0 \/ hist[i] > room THEN <<>>
    ELSE Append(FitTurns(hist, i - 1, room - hist[i]), i)

\* assemble(history, systemPrompt, retrievedChunks, contextLength)
AssemblePrompt(hist, sp, cs, limit) ==
    LET kept == FitChunks(cs, 1, ChunkRoom(limit, sp, hist))
        room == limit - sp - SizeOf(cs, Range(kept))
    IN [chunks |-> kept, turns |-> FitTurns(hist, Len(hist), room)]

\* The parts other than the context assembler.
notAssembleVars ==
    <<chatVars, modelsVars, authVars, chunkVars, retrieveVars, convVars>>

\* assemble
Assemble ==
    /\ ~assembled
    /\ prompt' = AssemblePrompt(history, systemPrompt, retrievedChunks,
                                contextLength - reserve)
    /\ assembled' = TRUE
    /\ UNCHANGED <<contextLength, reserve, systemPrompt, retrievedChunks, history>>
    /\ UNCHANGED notAssembleVars

\* The prompt is consumed by the generation; the next request can come.
NextRequest ==
    /\ assembled
    /\ prompt' = NoPrompt
    /\ assembled' = FALSE
    /\ UNCHANGED <<contextLength, reserve, systemPrompt, retrievedChunks, history>>
    /\ UNCHANGED notAssembleVars

AssembleInit ==
    /\ contextLength \in 2..MaxContext
    /\ reserve \in 0..1
    /\ systemPrompt \in 0..1
    /\ retrievedChunks \in SizeLists(MaxRetrieved)
    /\ history \in SizeLists(MaxTurns)
    /\ prompt = NoPrompt
    /\ assembled = FALSE
    /\ ChatIdle /\ ModelsIdle /\ AuthIdle /\ ChunkIdle /\ RetrieveIdle /\ ConvIdle

AssembleNext == Assemble \/ NextRequest

AssembleSpec == AssembleInit /\ [][AssembleNext]_vars

\* ----------------------------------------------------------------- C21
\* The size of the prompt assembled.
PromptSize ==
    systemPrompt + SizeOf(retrievedChunks, Range(prompt.chunks))
        + SizeOf(history, Range(prompt.turns))

\* C21: the prompt stays within contextLength less the reserved output
\* budget; the history kept is the most recent turns, so turns are dropped
\* oldest first; and a retrieved chunk is dropped only when it does not fit
\* beside the system prompt and the chunks kept before it, never to make
\* room for a history turn.
C21_OnlyHistoryTruncated ==
    assembled =>
        /\ PromptSize <= contextLength - reserve
        /\ \E k \in 0..Len(history) :
              prompt.turns = [i \in 1..(Len(history) - k) |-> k + i]
        /\ \A c \in DOMAIN retrievedChunks :
              c \notin Range(prompt.chunks) =>
                  systemPrompt
                      + SizeOf(retrievedChunks, {d \in Range(prompt.chunks) : d < c})
                      + retrievedChunks[c] > contextLength - reserve

\* A prompt in which every chunk is kept and the oldest turn is dropped
\* although the chunks dropped instead would have made room for it.
C21_Witness ==
    /\ assembled
    /\ Len(retrievedChunks) = 2
    /\ Len(prompt.chunks) = 2
    /\ Len(history) = 3
    /\ Len(prompt.turns) = 2
    /\ history[1] <= retrievedChunks[2]

\* ----------------------------------------------------------------- C22
\* C22: a page opened as a new chat creates one conversation at most: the
\* first send creates it and no later send, nor a send issued while the
\* create request is in flight, creates another.
C22_OneConversationPerNewChat ==
    isNewChat => Len(conversations) <= 1

\* ----------------------------------------------------------------- C23
\* C23: every chat:cancel the page has emitted names the stream id and the
\* conversation id of a chat:stream request emitted before it.
C23_CancelNamesStreamRequest ==
    \A i \in DOMAIN emitted :
        emitted[i].type = "chat:cancel" =>
            \E j \in 1..(i - 1) :
                /\ emitted[j].type = "chat:stream"
                /\ emitted[j].streamId = emitted[i].socketId
                /\ emitted[j].conversationId = emitted[i].conversationId

\* ----------------------------------------------------------------- C24
\* C24: whenever the auth store says isAuthenticated, an auth token is in
\* localStorage.
C24_AuthenticatedHasToken ==
    authState.isAuthenticated => authToken # "null"

\* ----------------------------------------------------------------- C25
\* C25: whenever the socket is connected, the auth store says
\* isAuthenticated.
C25_ConnectedOnlyAuthenticated ==
    socketState = "open" => authState.isAuthenticated

\* ----------------------------------------------------------------- C26
\* The store, the token and the socket as logout leaves them.
LoggedOut ==
    /\ authToken = "null"
    /\ socketState # "open"
    /\ authState = LoggedOutState

\* C26: every logout ends with no token stored, the socket not connected
\* and the store at isAuthenticated = false, user = null, isLoading =
\* false, whatever the state before; a logout in that state changes
\* nothing.
C26_LogoutEndsLoggedOut ==
    [][Logout =>
          /\ authToken' = "null"
          /\ socketState' # "open"
          /\ authState' = LoggedOutState
          /\ LoggedOut => UNCHANGED authVars]_vars

\* The user logged out while authenticated with requests in flight.
C26_Witness ==
    /\ LoggedOut
    /\ socketState = "closed"
    /\ socketAuth # "null"
    /\ lastConnect.called
    /\ inflight # {}

\* ----------------------------------------------------------------- C27
\* A step in which checkAuth's profile request ends.
ProfileEnds == CallEnds /\ lastResult'.kind = "profile"

\* C27: checkAuth ends with isLoading = false.  With no token stored it
\* sends no request and the store is unauthenticated; a profile request is
\* sent only with a token stored, and when it ends the store is
\* authenticated exactly if it succeeded; when it failed the token is
\* removed and the store is unauthenticated with user = null.
C27_CheckAuthOutcome ==
    [][/\ (CheckAuth /\ authToken = "null") =>
              /\ authState' = LoggedOutState
              /\ UNCHANGED <<inflight, callCount, authToken>>
       /\ (CheckAuth /\ authToken # "null") =>
              \E r \in inflight' \ inflight : r.kind = "profile" /\ r.stored = authToken
       /\ ProfileEnds =>
              /\ ~authState'.isLoading
              /\ authState'.isAuthenticated <=> ~lastResult'.failed
              /\ lastResult'.failed =>
                    /\ authToken' = "null"
                    /\ authState'.user = "null"]_vars

\* A profile request has failed: the token that was stored is gone.
C27_Witness ==
    /\ lastResult.kind = "profile"
    /\ lastResult.failed
    /\ authToken = "null"
    /\ authState = LoggedOutState
    /\ ~navigating

\* ----------------------------------------------------------------- C28
\* A step in which a login or a registration ends in failure.
LoginFails ==
    /\ CallEnds
    /\ lastResult'.kind \in {"login", "register"}
    /\ lastResult'.failed

\* C28: a failed login or registration changes nothing: the auth store,
\* the stored token, the socket and the page are as they were.
C28_FailedLoginChangesNothing ==
    [][LoginFails =>
          UNCHANGED <<authState, authToken, socketAuth, socketState, navigating>>]_vars

\* ========================================================== conversations store
\* The conversations the backend holds when the page loads.
InitialConvs ==
    << [id |-> "a", title |-> "A", updated_at |-> 1],
       [id |-> "b", title |-> "B", updated_at |-> 2] >>

\* The conversation the backend creates for call n.
CreatedConv(n) == [id |-> CreatedIds[n], title |-> "New Chat", updated_at |-> 2 + n]

\* The ids callers load and delete, and the id they rename.
LoadedIds == {"a", "b"}
RenamedIds == {"a"}

RECURSIVE InsertNewestFirst(_, _)
InsertNewestFirst(c, sorted) ==
    IF sorted = <<>> THEN <<c>>
    ELSE IF Last(sorted).updated_at - c.updated_at < 0
         THEN Append(InsertNewestFirst(c, Front(sorted)), Last(sorted))
         ELSE Append(sorted, c)

\* conversations.sort((a, b) => b.updated_at - a.updated_at)
RECURSIVE SortNewestFirst(_)
SortNewestFirst(cs) ==
    IF cs = <<>> THEN <<>>
    ELSE InsertNewestFirst(Last(cs), SortNewestFirst(Front(cs)))

\* A removal by position instead of by id: the first entry goes.
WithoutHead(cs, id) == IF cs = <<>> THEN <<>> ELSE Tail(cs)

\* state.conversations.filter(c => c.id !== id)
RECURSIVE WithoutId(_, _)
WithoutId(cs, id) ==
    IF cs = <<>> THEN <<>>
    ELSE IF Head(cs).id = id THEN WithoutId(Tail(cs), id)
         ELSE <<Head(cs)>> \o WithoutId(Tail(cs), id)

\* { ...conv, ...data } for data = {title}
Merged(conv, title) == [conv EXCEPT !.title = title]

\* state.conversations.map(conv => conv.id === id ? {...conv, ...data} : conv)
Renamed(cs, id, title) ==
    [i \in DOMAIN cs |-> IF cs[i].id = id THEN Merged(cs[i], title) ELSE cs[i]]

\* What the backend answers to call n of operation op on id, succeeding
\* when ok and when the conversation asked for exists: the data of its
\* response.
ResponseData(n, op, id, ok) ==
    CASE ~ok -> <<>>
      [] op = "loadConversations" -> serverConvs
      [] op = "loadConversation" -> SelectSeq(serverConvs, LAMBDA c : c.id = id)
      [] op \in {"createConversation", "pageCreate"} -> <<CreatedConv(n)>>
      [] op = "updateConversation" ->
            Renamed(SelectSeq(serverConvs, LAMBDA c : c.id = id), id, "renamed")
      [] op = "deleteConversation" -> SelectSeq(serverConvs, LAMBDA c : c.id = id)

\* The backend's conversations after it handled the call.
ServerAfter(n, op, id, ok) ==
    CASE ~ok -> serverConvs
      [] op \in {"createConversation", "pageCreate"} ->
            Append(serverConvs, CreatedConv(n))
      [] op = "updateConversation" -> Renamed(serverConvs, id, "renamed")
      [] op = "deleteConversation" -> WithoutId(serverConvs, id)
      [] OTHER -> serverConvs

\* response.status: a request for a conversation the backend does not hold
\* fails.
ResponseStatus(n, op, id, ok) ==
    ok /\ (op = "loadConversations" \/ ResponseData(n, op, id, ok) # <<>>)

\* The parts other than the conversations store.
notConvVars ==
    <<chatVars, modelsVars, authVars, chunkVars, retrieveVars, assembleVars>>

\* A store method, or the chat page's createConversation, up to its await.
\* The backend handles the request when it is sent; ok tells whether the
\* request reaches it.
ConvCall(op, id, ok) ==
    /\ convCount < MaxConvCalls
    /\ convCount' = convCount + 1
    /\ convPending' = convPending \cup
          {[n |-> convCount + 1, op |-> op, id |-> id,
            status |-> ResponseStatus(convCount + 1, op, id, ok),
            data |-> IF ResponseStatus(convCount + 1, op, id, ok)
                     THEN ResponseData(convCount + 1, op, id, ok) ELSE <<>>]}
    /\ serverConvs' = ServerAfter(convCount + 1, op, id, ok)
    /\ IF op \in {"loadConversations", "loadConversation", "createConversation"}
       THEN convIsLoading' = TRUE /\ convError' = "null"
       ELSE UNCHANGED <<convIsLoading, convError>>
    /\ currentConversation' =
          IF op = "loadConversation" THEN NoConversation ELSE currentConversation
    /\ lastLoad' =
          IF op = "loadConversation"
          THEN [n |-> convCount + 1, id |-> id,
                status |-> ResponseStatus(convCount + 1, op, id, ok),
                count |-> lastLoad.count + 1]
          ELSE lastLoad
    /\ UNCHANGED <<convList, convLast>>
    /\ UNCHANGED notConvVars

\* The store after the response of call r: the continuation of the method
\* that awaited it.
ConvResponse(r) ==
    /\ r \in convPending
    /\ convPending' = convPending \ {r}
    /\ convLast' = [n |-> r.n, op |-> r.op, id |-> r.id, ok |-> r.status]
    /\ CASE r.op = "loadConversations" ->
              /\ convList' = IF r.status THEN SortNewestFirst(r.data) ELSE convList
              /\ convError' = IF r.status THEN convError ELSE "load"
              /\ convIsLoading' = FALSE
              /\ UNCHANGED currentConversation
         [] r.op = "loadConversation" ->
              /\ currentConversation' =
                    IF r.status THEN r.data[1] ELSE currentConversation
              /\ convError' = IF r.status THEN convError ELSE "load"
              /\ convIsLoading' = FALSE
              /\ UNCHANGED convList
         [] r.op = "createConversation" ->
              /\ convList' = IF r.status THEN <<r.data[1]>> \o convList ELSE convList
              /\ currentConversation' =
                    IF r.status THEN r.data[1] ELSE currentConversation
              /\ convError' = IF r.status THEN convError ELSE "create"
              /\ convIsLoading' = FALSE
         [] r.op = "pageCreate" ->
              /\ convList' = IF r.status THEN addConversation(convList, r.data[1])
                             ELSE convList
              /\ UNCHANGED <<currentConversation, convError, convIsLoading>>
         [] r.op = "updateConversation" ->
              /\ convList' = IF r.status THEN Renamed(convList, r.id, "renamed")
                             ELSE convList
              /\ currentConversation' =
                    IF r.status /\ currentConversation.id = r.id
                    THEN Merged(currentConversation, "renamed")
                    ELSE currentConversation
              /\ UNCHANGED <<convError, convIsLoading>>
         [] r.op = "deleteConversation" ->
              /\ convList' = IF r.status THEN WithoutId(convList, r.id) ELSE convList
              /\ currentConversation' =
                    IF r.status /\ currentConversation.id = r.id
                    THEN NoConversation ELSE currentConversation
              /\ UNCHANGED <<convError, convIsLoading>>
    /\ UNCHANGED <<convCount, serverConvs, lastLoad>>
    /\ UNCHANGED notConvVars

ConvInit ==
    /\ convList = <<>>
    /\ currentConversation = NoConversation
    /\ convIsLoading = FALSE
    /\ convError = "null"
    /\ convPending = {}
    /\ convCount = 0
    /\ serverConvs = InitialConvs
    /\ lastLoad = NoLoad
    /\ convLast = NoConvCall
    /\ ChatIdle /\ ModelsIdle /\ AuthIdle /\ ChunkIdle /\ RetrieveIdle /\ AssembleIdle

ConvNext ==
    \/ \E ok \in BOOLEAN : ConvCall("loadConversations", "null", ok)
    \/ \E id \in LoadedIds, ok \in BOOLEAN : ConvCall("loadConversation", id, ok)
    \/ \E ok \in BOOLEAN : ConvCall("createConversation", "null", ok)
    \/ \E ok \in BOOLEAN : ConvCall("pageCreate", "null", ok)
    \/ \E id \in RenamedIds, ok \in BOOLEAN : ConvCall("updateConversation", id, ok)
    \/ \E id \in LoadedIds, ok \in BOOLEAN : ConvCall("deleteConversation", id, ok)
    \/ \E r \in convPending : ConvResponse(r)

ConvSpec == ConvInit /\ [][ConvNext]_vars

\* ----------------------------------------------------------------- C29
\* C29: when only loadConversation has been called, the response of the
\* most recent call was a success and no call is in flight any more,
\* currentConversation is the conversation that call asked for, in
\* whichever order the responses arrived.
C29_LatestLoadWins ==
    (/\ lastLoad.count >= 2
     /\ lastLoad.count = convCount
     /\ lastLoad.status
     /\ convPending = {}) => currentConversation.id = lastLoad.id

\* ----------------------------------------------------------------- C30
\* C30: no two entries of the store's conversations list have the same id.
C30_NoDuplicateIds ==
    \A i, j \in DOMAIN convList : i # j => convList[i].id # convList[j].id

\* The calls that set isLoading when they start.
LoadingOps == {"loadConversations", "loadConversation", "createConversation"}

\* ----------------------------------------------------------------- C31
\* C31: while a loadConversations, loadConversation or createConversation
\* call awaits its response, isLoading is true.
C31_LoadingWhileInFlight ==
    (\E r \in convPending : r.op \in LoadingOps) => convIsLoading

\* The response of a deleteConversation call arrives.
DeleteEnds(r) == r.op = "deleteConversation" /\ ConvResponse(r)

\* ----------------------------------------------------------------- C32
\* C32: when the response of deleteConversation(id) is a success, the
\* list afterwards is the list before without the entries of that id, the
\* others unchanged and in the same order, currentConversation becomes
\* null if it had that id and is unchanged otherwise, and nothing else of
\* the store changes; when it is a failure the store is unchanged and the
\* call returns false.
C32_DeleteOnlyOnSuccess ==
    [][\A r \in convPending : DeleteEnds(r) =>
          /\ convLast'.ok = r.status
          /\ UNCHANGED <<convIsLoading, convError>>
          /\ IF r.status
             THEN /\ convList' = SelectSeq(convList, LAMBDA c : c.id # r.id)
                  /\ currentConversation' =
                        IF currentConversation.id = r.id
                        THEN NoConversation ELSE currentConversation
             ELSE UNCHANGED <<convList, currentConversation>>]_vars

\* A confirmed deletion has removed the conversation from a list that
\* keeps another one.
C32_Witness ==
    /\ convLast.op = "deleteConversation"
    /\ convLast.ok
    /\ convList # <<>>
    /\ \A i \in DOMAIN convList : convList[i].id # convLast.id

\* ----------------------------------------------------------------- C33
\* C33: selectedModel is null or an element of the models list has its id
\* and its parameters.
C33_SelectedModelIsListed ==
    \/ selectedModel = NullModel
    \/ \E i \in DOMAIN models :
          /\ models[i].id = selectedModel.id
          /\ models[i].parameters = selectedModel.parameters

\* updateModelParameters has changed a parameter of the selected model.
C33_Witness ==
    /\ selectedModel # NullModel
    /\ lastCall.op = "updateModelParameters"
    /\ lastCall.ok
    /\ lastCall.id = selectedModel.id
    /\ selectedModel.parameters.temperature = "custom"

========================================================================
